---- MODULE Spec2Model ----
(***************************************************************************)
(* A model of src/app.py, the Streamlit "AI PowerPoint Maker".             *)
(*                                                                         *)
(* Text is modelled as a sequence of one-character strings, so that        *)
(* substring search, split, strip and slicing are computed the way Python  *)
(* computes them.  A Python dict is a function whose DOMAIN is the set of  *)
(* keys that are present; d.get(k, default) is Get(d, k, default).         *)
(***************************************************************************)
EXTENDS Integers, Sequences, FiniteSets, TLC

VARIABLES
    response_text,      \* generate_presentation_content: response.text
    json_str,           \* generate_presentation_content: <<>> before extraction, <<text>> after
    theme_color,        \* ensure_text_readability: the theme's colour dictionary
    is_title,           \* ensure_text_readability: the is_title argument
    text_color,         \* ensure_text_readability: <<>> before the call, <<colour>> after
    deck_data,          \* create_powerpoint: the presentation_data argument
    deck_out,           \* create_powerpoint: <<>> before the call, <<result>> after
    api_key,            \* line 26-31: the key read from the secrets
    pc,                 \* per script run: the position of the button handler
    topic,              \* per script run: the topic text area
    presentation_data,  \* per script run: <<>> for None, <<dict>> otherwise
    pptx_path,          \* per script run: <<>> before create_powerpoint returns, <<path>> after
    errors,             \* per script run: the st.error messages shown
    exc,                \* per script run: the uncaught exception that ended it, "" if none
    requests,           \* number of generate_content requests sent to the API
    file,               \* the file at TempPptxPath: <<>> if absent, <<[owner, age, n_slides]>>
    timer,              \* per script run: the state of its cleanup thread
    remaining           \* per script run: minutes its cleanup thread has yet to sleep

extractVars == <<response_text, json_str>>
readVars    == <<theme_color, is_title, text_color>>
deckVars    == <<deck_data, deck_out>>
appVars     == <<api_key, pc, topic, presentation_data, pptx_path, errors, exc,
                 requests, file, timer, remaining>>
vars        == <<response_text, json_str, theme_color, is_title, text_color,
                 deck_data, deck_out, api_key, pc, topic, presentation_data,
                 pptx_path, errors, exc, requests, file, timer, remaining>>

-----------------------------------------------------------------------------
(* Python string primitives                                                *)

\* s[i:] (0-based slice start i, here as the 1-based first index kept)
From(s, i) == SubSeq(s, i, Len(s))

\* does p occur in s at 1-based position i
OccursAt(s, p, i) == /\ i >= 1
                     /\ i + Len(p) - 1 <= Len(s)
                     /\ SubSeq(s, i, i + Len(p) - 1) = p

\* str.find: the least position of p in s, 0 when there is none
Find(s, p) ==
    LET hits == {i \in 1..Len(s) : OccursAt(s, p, i)}
    IN  IF hits = {} THEN 0 ELSE CHOOSE i \in hits : \A j \in hits : i <= j

\* p in s
Contains(s, p) == Find(s, p) # 0

\* str.split(sep): the pieces between the non-overlapping occurrences of sep,
\* scanned left to right
RECURSIVE PySplit(_, _)
PySplit(s, sep) ==
    LET i == Find(s, sep)
    IN  IF i = 0 THEN <<s>>
        ELSE <<SubSeq(s, 1, i - 1)>> \o PySplit(From(s, i + Len(sep)), sep)

\* The characters str.strip() removes: those for which str.isspace() holds.
\* A character with no TLA+ escape is written as its code point.
Whitespace ==
    { "\t", "\n", "U+000B", "\f", "\r", "U+001C", "U+001D", "U+001E", "U+001F", " ",
      "U+0085", "U+00A0", "U+1680", "U+2000", "U+2001", "U+2002", "U+2003", "U+2004",
      "U+2005", "U+2006", "U+2007", "U+2008", "U+2009", "U+200A", "U+2028", "U+2029",
      "U+202F", "U+205F", "U+3000" }

\* str.strip(): leading and trailing whitespace removed
Strip(s) ==
    LET keep == {i \in 1..Len(s) : s[i] \notin Whitespace}
    IN  IF keep = {} THEN <<>>
        ELSE LET lo == CHOOSE i \in keep : \A j \in keep : i <= j
                 hi == CHOOSE i \in keep : \A j \in keep : j <= i
             IN  SubSeq(s, lo, hi)

-----------------------------------------------------------------------------
(* generate_presentation_content: extraction of the JSON text              *)

\* The backquote character (written as a name: the character itself cannot
\* stand in a TLA+ string).
Backquote == "BACKQUOTE"

Fence     == <<Backquote, Backquote, Backquote>>
JsonFence == Fence \o <<"j", "s", "o", "n">>

\* lines 182-187
ExtractJsonStr(text) ==
    IF Contains(text, JsonFence)
    THEN Strip(PySplit(PySplit(text, JsonFence)[2], Fence)[1])
    ELSE IF Contains(text, Fence)
    THEN Strip(PySplit(text, Fence)[2])
    ELSE text

\* The pieces a response text is assembled from.
Chunks == { Fence,
            <<"j", "s", "o", "n">>,
            <<"p", "y">>,
            <<"\n">>,
            <<"\f">>,
            <<"{", "}">> }

MaxChunks == 5

RECURSIVE Concat(_)
Concat(ss) == IF ss = <<>> THEN <<>> ELSE Head(ss) \o Concat(Tail(ss))

ResponseTexts ==
    { Concat(cs) : cs \in UNION { [1..n -> Chunks] : n \in 0..MaxChunks } }

ExtractFromJsonFence ==
    /\ json_str = <<>>
    /\ Contains(response_text, JsonFence)
    /\ json_str' = <<ExtractJsonStr(response_text)>>
    /\ UNCHANGED <<response_text, readVars, deckVars, appVars>>

ExtractFromFence ==
    /\ json_str = <<>>
    /\ ~Contains(response_text, JsonFence)
    /\ Contains(response_text, Fence)
    /\ json_str' = <<ExtractJsonStr(response_text)>>
    /\ UNCHANGED <<response_text, readVars, deckVars, appVars>>

ExtractRaw ==
    /\ json_str = <<>>
    /\ ~Contains(response_text, Fence)
    /\ json_str' = <<ExtractJsonStr(response_text)>>
    /\ UNCHANGED <<response_text, readVars, deckVars, appVars>>

IdleExtract == response_text = <<>> /\ json_str = <<>>
IdleRead    == theme_color = <<>> /\ is_title = FALSE /\ text_color = <<>>
IdleDeck    == deck_data = <<>> /\ deck_out = <<>>
IdleApp     == /\ api_key = "" /\ requests = 0 /\ file = <<>>
               /\ pc = <<>> /\ topic = <<>> /\ presentation_data = <<>>
               /\ pptx_path = <<>> /\ errors = <<>> /\ exc = <<>>
               /\ timer = <<>> /\ remaining = <<>>

InitExtract ==
    /\ response_text \in ResponseTexts
    /\ json_str = <<>>
    /\ IdleRead /\ IdleDeck /\ IdleApp

NextExtract == ExtractFromJsonFence \/ ExtractFromFence \/ ExtractRaw

SpecExtract == InitExtract /\ [][NextExtract]_vars

-----------------------------------------------------------------------------
(* Fenced blocks, as the response format defines them: the first fence     *)
(* marker opens a block, the next one closes it, and so on; an unclosed    *)
(* block runs to the end of the text.  The run of letters right after an   *)
(* opening marker is the block's language tag; what follows the tag, up to *)
(* the closing marker, is the block's interior.                            *)

Letters == {"j", "s", "o", "n", "p", "y"}

RECURSIVE FencesFrom(_, _)
FencesFrom(s, k) ==
    LET hits == {i \in k..Len(s) : OccursAt(s, Fence, i)}
    IN  IF hits = {} THEN <<>>
        ELSE LET i == CHOOSE h \in hits : \A j \in hits : h <= j
             IN  <<i>> \o FencesFrom(s, i + Len(Fence))

\* the blocks of s, in order: [open, close] marker positions (close is
\* Len(s) + 1 for an unclosed block)
FencedBlocks(s) ==
    LET m == FencesFrom(s, 1)
    IN  [b \in 1..((Len(m) + 1) \div 2) |->
            [open  |-> m[2 * b - 1],
             close |-> IF 2 * b <= Len(m) THEN m[2 * b] ELSE Len(s) + 1]]

TagLen(s, blk) ==
    LET start == blk.open + Len(Fence)
        lens  == {t \in 0..(blk.close - start) :
                     \A i \in start..(start + t - 1) : s[i] \in Letters}
    IN  CHOOSE t \in lens : \A u \in lens : u <= t

BlockTag(s, blk) ==
    SubSeq(s, blk.open + Len(Fence), blk.open + Len(Fence) + TagLen(s, blk) - 1)

BlockInterior(s, blk) ==
    Strip(SubSeq(s, blk.open + Len(Fence) + TagLen(s, blk), blk.close - 1))

FencedJsonText(s) ==
    LET blocks == FencedBlocks(s)
        tagged == {b \in 1..Len(blocks) : BlockTag(s, blocks[b]) = <<"j", "s", "o", "n">>}
    IN  IF tagged # {}
        THEN BlockInterior(s, blocks[CHOOSE b \in tagged : \A c \in tagged : b <= c])
        ELSE IF Len(blocks) > 0
        THEN BlockInterior(s, blocks[1])
        ELSE s

\* C7: the JSON text extracted from a response is the interior of its
\* json-tagged fenced block if it has one, otherwise the interior of its first
\* fenced block if it has any fence, otherwise the response text unchanged.
C7_ExtractsFencedInterior ==
    json_str # <<>> => json_str[1] = FencedJsonText(response_text)

-----------------------------------------------------------------------------
(* ensure_text_readability                                                 *)

LuminanceThreshold == 128

\* line 107, scaled by 1000 to stay in the integers:
\*   luminance = 0.299 * bg[0] + 0.587 * bg[1] + 0.114 * bg[2]
\* For every colour with components in 0..255 the double-precision value
\* compares with 128 exactly as this integer compares with 128000.
Luminance1000(bg_color) == 299 * bg_color[1] + 587 * bg_color[2] + 114 * bg_color[3]

White == <<255, 255, 255>>

ReadableTextColorInclusive(theme, title) ==
    IF Luminance1000(theme["subtle"]) >= 1000 * LuminanceThreshold
    THEN IF title THEN theme["main"] ELSE theme["text"]
    ELSE IF title THEN theme["accent"] ELSE White

\* lines 106-119
ReadableTextColor(theme, title) ==
    IF Luminance1000(theme["subtle"]) > 1000 * LuminanceThreshold
    THEN IF title THEN theme["main"] ELSE theme["text"]
    ELSE IF title THEN theme["accent"] ELSE White

\* The "subtle" tones tried: every red component, with green and blue
\* components chosen so that luminance 128 is met exactly
\* ((128,128,128), (1,189,147), (4,210,31)) and approached from both sides.
RedSamples   == 0..255
GreenSamples == {0, 128, 189, 210, 255}
BlueSamples  == {0, 31, 128, 147, 255}

Themes ==
    { [subtle |-> <<r, g, b>>,
       text   |-> <<33, 33, 33>>,
       main   |-> <<0, 51, 102>>,
       accent |-> <<255, 204, 0>>] :
         r \in RedSamples, g \in GreenSamples, b \in BlueSamples }

\* lines 94-126: the colour given to every paragraph of the text frame
EnsureTextReadability ==
    /\ text_color = <<>>
    /\ theme_color # <<>>
    /\ text_color' = <<ReadableTextColor(theme_color, is_title)>>
    /\ UNCHANGED <<theme_color, is_title, extractVars, deckVars, appVars>>

InitRead ==
    /\ theme_color \in Themes
    /\ is_title \in BOOLEAN
    /\ text_color = <<>>
    /\ IdleExtract /\ IdleDeck /\ IdleApp

NextRead == EnsureTextReadability

SpecRead == InitRead /\ [][NextRead]_vars

\* C9: with L the luminance of the "subtle" tone, L > 128 selects dark text
\* (the theme's "main" tone for a title, its "text" tone for body) and
\* L <= 128, the boundary included, selects light text (the theme's "accent"
\* tone for a title, white for body).
C9_LuminanceRule ==
    text_color # <<>> =>
        LET L1000 == 299 * theme_color.subtle[1] + 587 * theme_color.subtle[2]
                       + 114 * theme_color.subtle[3]
        IN  /\ (L1000 > 128000 /\ is_title)   => text_color[1] = theme_color.main
            /\ (L1000 > 128000 /\ ~is_title)  => text_color[1] = theme_color.text
            /\ (L1000 <= 128000 /\ is_title)  => text_color[1] = theme_color.accent
            /\ (L1000 <= 128000 /\ ~is_title) => text_color[1] = <<255, 255, 255>>

\* C9 witness: the rule has been applied to a body text on a background of
\* luminance exactly 128, and to no other effect than white text.
C9_Witness_Boundary ==
    /\ text_color = <<(<<255, 255, 255>>)>>
    /\ ~is_title
    /\ theme_color # <<>>
    /\ theme_color.subtle = <<1, 189, 147>>

-----------------------------------------------------------------------------
(* create_powerpoint                                                       *)

\* dict.get(key, default)
Get(d, k, default) == IF k \in DOMAIN d THEN d[k] ELSE default

\* truth value of a dict or list: it is not empty
Truthy(v) == DOMAIN v # {}

TrimLimit == 500

Ellipsis == <<".", ".", ".">>

NoContentAvailable ==
    <<"N", "o", " ", "c", "o", "n", "t", "e", "n", "t", " ",
      "a", "v", "a", "i", "l", "a", "b", "l", "e">>

NoContentGenerated ==
    <<"N", "o", " ", "c", "o", "n", "t", "e", "n", "t", " ", "w", "a", "s", " ",
      "g", "e", "n", "e", "r", "a", "t", "e", "d", ".", " ",
      "P", "l", "e", "a", "s", "e", " ", "t", "r", "y", " ",
      "a", "g", "a", "i", "n", ".">>

\* lines 286-290
DefaultSlides ==
    << [title   |-> "Default Slide",
        content |-> NoContentGenerated,
        type    |-> "content_slide"] >>

TrimContentOffByOne(slide_content) ==
    IF Len(slide_content) >= TrimLimit
    THEN SubSeq(slide_content, 1, TrimLimit) \o Ellipsis
    ELSE slide_content

\* lines 319-320
TrimContent(slide_content) ==
    IF Len(slide_content) > TrimLimit
    THEN SubSeq(slide_content, 1, TrimLimit) \o Ellipsis
    ELSE slide_content

\* The slide layouts of the library's default template, by index:
\* 0 Title Slide, 1 Title and Content, 2 Section Header, 3 Two Content.
LayoutFirstByDefault(type) ==
    CASE type = "title_slide"       -> 0
      [] type = "content_slide"     -> 1
      [] type = "section_slide"     -> 2
      [] type = "two_content_slide" -> 3
      [] OTHER                      -> 0

\* lines 294-299: the layout mapped to the type tag, layout 1 for any other
LayoutOfType(type) ==
    CASE type = "title_slide"       -> 0
      [] type = "content_slide"     -> 1
      [] type = "section_slide"     -> 2
      [] type = "two_content_slide" -> 3
      [] OTHER                      -> 1

\* line 299
SlideLayout(slide_data) == LayoutOfType(Get(slide_data, "type", "content_slide"))

\* Every one of the four layouts has a title placeholder (line 305) ...
LayoutHasTitle(layout) == layout \in {0, 1, 2, 3}

\* ... and more than one placeholder, the one of index 1 being the subtitle
\* or body (lines 312-313).
LayoutPlaceholders(layout) == IF layout = 3 THEN 3 ELSE 2

\* lines 301-323: the slide added for one record.  title is <<>> when the
\* layout has no title placeholder, body is <<>> when it has no second one.
ContentSlide(slide_data) ==
    LET layout == SlideLayout(slide_data)
    IN  [layout |-> layout,
         title  |-> IF LayoutHasTitle(layout)
                    THEN <<Get(slide_data, "title", "Untitled Slide")>>
                    ELSE <<>>,
         body   |-> IF LayoutPlaceholders(layout) > 1
                    THEN <<TrimContent(Get(slide_data, "content", NoContentAvailable))>>
                    ELSE <<>>]

\* lines 266-278
TitleSlide(data) ==
    [layout |-> 0,
     title  |-> <<Get(data, "title", "AI-Generated Presentation")>>,
     body   |-> <<"AI-Powered Presentation">>]

SlidesDataNoDefault(data) == Get(data, "slides", <<>>)

\* lines 281-290
SlidesData(data) ==
    LET slides_data == Get(data, "slides", <<>>)
    IN  IF ~Truthy(slides_data) THEN DefaultSlides ELSE slides_data

\* lines 266-336: the slides of the deck, in order
DeckSlides(data) ==
    LET slides_data == SlidesData(data)
    IN  <<TitleSlide(data)>>
          \o [i \in 1..Len(slides_data) |-> ContentSlide(slides_data[i])]

\* line 339
TempPptxPath == "modern_presentation.pptx"

\* lines 197-342: the value returned (path <<>> stands for None) and the deck
\* saved at that path
CreatePowerpoint(data) ==
    IF ~Truthy(data)
    THEN [path |-> <<>>, slides |-> <<>>, error |-> <<"No presentation data available.">>]
    ELSE [path |-> <<TempPptxPath>>, slides |-> DeckSlides(data),
          error |-> <<>>]

MaxSlides == 2

Hello == <<"H", "e", "l", "l", "o">>

\* a body text of n characters, the i-th being the (i mod period)-th digit
Body(n, period) == [i \in 1..n |-> <<"0", "1", "2", "3", "4", "5", "6", "7", "8", "9">>[(i % period) + 1]]

\* dicts over the given optional keys
OptRecords(titles, contents, types) ==
    LET T == {<<>>} \cup {[title |-> t] : t \in titles}
        C == {<<>>} \cup {[content |-> c] : c \in contents}
        Y == {<<>>} \cup {[type |-> y] : y \in types}
    IN  { [k \in (DOMAIN t \cup DOMAIN c \cup DOMAIN y) |->
              IF k \in DOMAIN t THEN t[k] ELSE IF k \in DOMAIN c THEN c[k] ELSE y[k]] :
          t \in T, c \in C, y \in Y }

TypeTags == {"title_slide", "content_slide", "section_slide", "two_content_slide",
             "quote_slide"}

SlideRecords == OptRecords({"Intro"}, {Hello, Body(TrimLimit + 1, 7)}, TypeTags)

DeckContentsOver(records, n) ==
    LET S == {<<>>} \cup {[slides |-> ss] :
                 ss \in UNION {[1..m -> records] : m \in 0..n}}
        T == {<<>>, [title |-> "Q1 Review"]}
    IN  { [k \in (DOMAIN t \cup DOMAIN ss) |-> IF k \in DOMAIN t THEN t[k] ELSE ss[k]] :
          t \in T, ss \in S }

DeckContents == DeckContentsOver(SlideRecords, MaxSlides)

CreatePowerpointCall ==
    /\ deck_out = <<>>
    /\ deck_out' = <<CreatePowerpoint(deck_data)>>
    /\ UNCHANGED <<deck_data, extractVars, readVars, appVars>>

InitDeck ==
    /\ deck_data \in DeckContents
    /\ deck_out = <<>>
    /\ IdleExtract /\ IdleRead /\ IdleApp

NextDeck == CreatePowerpointCall

SpecDeck == InitDeck /\ [][NextDeck]_vars

\* Body texts whose lengths lie at both ends: near 0 and around the limit.
MaxDelta  == 3
MaxPeriod == 7

TrimLengths == (0..MaxDelta) \cup ((TrimLimit - MaxDelta)..(TrimLimit + MaxDelta))

InitTrim ==
    /\ \E n \in TrimLengths, period \in 1..MaxPeriod :
       \E tag \in TypeTags :
          deck_data = [title  |-> "Q1 Review",
                       slides |-> << [title |-> "Intro", content |-> Body(n, period),
                                      type |-> tag] >>]
    /\ deck_out = <<>>
    /\ IdleExtract /\ IdleRead /\ IdleApp

SpecTrim == InitTrim /\ [][NextDeck]_vars

-----------------------------------------------------------------------------
(* The script: one run per press of "Create PowerPoint Presentation".      *)
(* Runs of different sessions are threads of one process and share the     *)
(* secrets and the temporary directory.  Time is counted in minutes.       *)

MaxRuns == 2
Runs    == 1..MaxRuns

\* line 399: time.sleep(300), five minutes
DelayMinutes == 5

\* api_key stays None when the secrets hold no key (lines 26-31)
NoKey   == "<None>"
ApiKeys == {NoKey, "", "secret-key"}

KeyMissingOnlyNone(key) == key = NoKey

\* line 130: not api_key
KeyMissing(key) == key \in {NoKey, ""}

Topics == {"", "AI"}

MsgNoSecret   == "API Key not found in secrets. Please set up your API key in .streamlit/secrets.toml file."
MsgKeyMissing == "API key is missing. Please configure it in the secrets.toml file."
MsgGenError   == "Error generating presentation content"
MsgNoTopic    == "Please enter a presentation topic."
MsgFailed     == "Failed to generate presentation content. Please try again."

\* What json.loads can return for a response: null, or a dict in which any
\* of title, slides, and a slide's title and content may be absent.
FullRecord == [title |-> "Intro", content |-> Hello, type |-> "title_slide"]

AppContents ==
    { <<>>,
      [slides |-> <<FullRecord>>],
      [title |-> "Q1 Review"],
      [title |-> "Q1 Review", slides |-> <<>>],
      [title |-> "Q1 Review", slides |-> << [content |-> Hello] >>],
      [title |-> "Q1 Review", slides |-> << [title |-> "Intro"] >>],
      [title |-> "Q1 Review", slides |-> <<FullRecord>>] }

ParsedValues == {<<>>} \cup {<<d>> : d \in AppContents}

\* if presentation_data: (line 365)
HasContent(value) == value # <<>> /\ Truthy(value[1])

\* lines 384-393: the first subscript that raises, "" when none does
SummaryKeyError(data) ==
    IF "title" \notin DOMAIN data THEN "KeyError: 'title'"
    ELSE IF "slides" \notin DOMAIN data THEN "KeyError: 'slides'"
    ELSE IF ~Truthy(data["slides"]) THEN ""
    ELSE IF "title" \notin DOMAIN data["slides"][1] THEN "KeyError: 'title' (first slide)"
    ELSE IF "content" \notin DOMAIN data["slides"][1] THEN "KeyError: 'content' (first slide)"
    ELSE ""

Show(r, msgs) == errors' = [errors EXCEPT ![r] = @ \cup msgs]

\* lines 26-31 and 353-355: the script runs with the button pressed
Click(r) ==
    /\ pc[r] = "idle"
    /\ \E t \in Topics :
          /\ topic' = [topic EXCEPT ![r] = t]
          /\ Show(r, (IF api_key = NoKey THEN {MsgNoSecret} ELSE {})
                       \cup (IF t = "" THEN {MsgNoTopic} ELSE {}))
          /\ pc' = [pc EXCEPT ![r] = IF t = "" THEN "done" ELSE "generating"]
    /\ UNCHANGED <<api_key, presentation_data, pptx_path, exc, requests, file,
                   timer, remaining, extractVars, readVars, deckVars>>

\* lines 130-132
GenerateNoKey(r) ==
    /\ pc[r] = "generating"
    /\ KeyMissing(api_key)
    /\ Show(r, {MsgKeyMissing})
    /\ presentation_data' = [presentation_data EXCEPT ![r] = <<>>]
    /\ pc' = [pc EXCEPT ![r] = "generated"]
    /\ UNCHANGED <<api_key, topic, pptx_path, exc, requests, file, timer,
                   remaining, extractVars, readVars, deckVars>>

\* lines 134-136 and 193-195: genai.configure or the construction of the
\* model raises, before any request is sent
ConfigureFails(r) ==
    /\ pc[r] = "generating"
    /\ ~KeyMissing(api_key)
    /\ Show(r, {MsgGenError})
    /\ presentation_data' = [presentation_data EXCEPT ![r] = <<>>]
    /\ pc' = [pc EXCEPT ![r] = "generated"]
    /\ UNCHANGED <<api_key, topic, pptx_path, exc, requests, file, timer, remaining,
                   extractVars, readVars, deckVars>>

\* lines 134-177: the request is sent; generate_content blocks until the
\* service answers
SendRequest(r) ==
    /\ pc[r] = "generating"
    /\ ~KeyMissing(api_key)
    /\ requests' = requests + 1
    /\ pc' = [pc EXCEPT ![r] = "awaiting"]
    /\ UNCHANGED <<api_key, topic, presentation_data, pptx_path, errors, exc, file,
                   timer, remaining, extractVars, readVars, deckVars>>

\* lines 177-190 and 193-195: the call, or the parse of its response, raises
GenerateFails(r) ==
    /\ pc[r] = "awaiting"
    /\ Show(r, {MsgGenError})
    /\ presentation_data' = [presentation_data EXCEPT ![r] = <<>>]
    /\ pc' = [pc EXCEPT ![r] = "generated"]
    /\ UNCHANGED <<api_key, topic, pptx_path, exc, requests, file, timer, remaining,
                   extractVars, readVars, deckVars>>

\* lines 177-191: the call returns and its response parses
GenerateParses(r) ==
    /\ pc[r] = "awaiting"
    /\ \E value \in ParsedValues :
          presentation_data' = [presentation_data EXCEPT ![r] = value]
    /\ pc' = [pc EXCEPT ![r] = "generated"]
    /\ UNCHANGED <<api_key, topic, pptx_path, errors, exc, requests, file, timer,
                   remaining, extractVars, readVars, deckVars>>

\* lines 365, 404-405
NoContent(r) ==
    /\ pc[r] = "generated"
    /\ ~HasContent(presentation_data[r])
    /\ Show(r, {MsgFailed})
    /\ pc' = [pc EXCEPT ![r] = "done"]
    /\ UNCHANGED <<api_key, topic, presentation_data, pptx_path, exc, requests,
                   file, timer, remaining, extractVars, readVars, deckVars>>

\* lines 365-375: create_powerpoint saves the deck at the fixed path
Build(r) ==
    /\ pc[r] = "generated"
    /\ HasContent(presentation_data[r])
    /\ LET result == CreatePowerpoint(presentation_data[r][1])
       IN  /\ pptx_path' = [pptx_path EXCEPT ![r] = result.path]
           /\ file' = IF result.path = <<>> THEN file
                      ELSE <<[owner |-> r, age |-> 0, n_slides |-> Len(result.slides)]>>
           /\ Show(r, {result.error[i] : i \in DOMAIN result.error})
           /\ pc' = [pc EXCEPT ![r] = IF result.path = <<>> THEN "done" ELSE "built"]
    /\ UNCHANGED <<api_key, topic, presentation_data, exc, requests, timer,
                   remaining, extractVars, readVars, deckVars>>

\* lines 376-380 and 345-350: open() of the file now at the path, for the download link
Link(r) ==
    /\ pc[r] = "built"
    /\ IF file = <<>>
       THEN /\ exc' = [exc EXCEPT ![r] = "FileNotFoundError"]
            /\ pc' = [pc EXCEPT ![r] = "raised"]
       ELSE /\ pc' = [pc EXCEPT ![r] = "linked"]
            /\ UNCHANGED exc
    /\ UNCHANGED <<api_key, topic, presentation_data, pptx_path, errors, requests, file,
                   timer, remaining, extractVars, readVars, deckVars>>

\* lines 383-393: a subscript of the summary or of the preview raises
SummaryRaises(r) ==
    /\ pc[r] = "linked"
    /\ SummaryKeyError(presentation_data[r][1]) # ""
    /\ exc' = [exc EXCEPT ![r] = SummaryKeyError(presentation_data[r][1])]
    /\ pc' = [pc EXCEPT ![r] = "raised"]
    /\ UNCHANGED <<api_key, topic, presentation_data, pptx_path, errors, requests,
                   file, timer, remaining, extractVars, readVars, deckVars>>

\* lines 383-403: summary and preview are shown, the cleanup thread starts
SummaryAndTimer(r) ==
    /\ pc[r] = "linked"
    /\ SummaryKeyError(presentation_data[r][1]) = ""
    /\ timer' = [timer EXCEPT ![r] = "sleeping"]
    /\ remaining' = [remaining EXCEPT ![r] = DelayMinutes]
    /\ pc' = [pc EXCEPT ![r] = "done"]
    /\ UNCHANGED <<api_key, topic, presentation_data, pptx_path, errors, exc,
                   requests, file, extractVars, readVars, deckVars>>

\* lines 399-400: the sleep is over, os.path.exists(pptx_path)
CleanupWake(r) ==
    /\ timer[r] = "sleeping"
    /\ remaining[r] = 0
    /\ timer' = [timer EXCEPT ![r] = IF file # <<>> THEN "unlinking" ELSE "finished"]
    /\ UNCHANGED <<api_key, pc, topic, presentation_data, pptx_path, errors, exc,
                   requests, file, remaining, extractVars, readVars, deckVars>>

\* line 401: os.unlink(pptx_path)
CleanupUnlink(r) ==
    /\ timer[r] = "unlinking"
    /\ timer' = [timer EXCEPT ![r] = IF file # <<>> THEN "finished" ELSE "raised"]
    /\ file' = <<>>
    /\ UNCHANGED <<api_key, pc, topic, presentation_data, pptx_path, errors, exc,
                   requests, remaining, extractVars, readVars, deckVars>>

\* a minute passes: sleeping threads have one minute less to sleep, the file
\* is one minute older (ages beyond the delay are not told apart)
Tick ==
    /\ \/ \E r \in Runs : timer[r] = "sleeping" /\ remaining[r] > 0
       \/ file # <<>> /\ file[1].age < DelayMinutes
    /\ remaining' = [r \in Runs |->
                        IF timer[r] = "sleeping" /\ remaining[r] > 0
                        THEN remaining[r] - 1 ELSE remaining[r]]
    /\ file' = IF file # <<>> /\ file[1].age < DelayMinutes
               THEN <<[file[1] EXCEPT !.age = @ + 1]>> ELSE file
    /\ UNCHANGED <<api_key, pc, topic, presentation_data, pptx_path, errors, exc,
                   requests, timer, extractVars, readVars, deckVars>>

Init ==
    /\ api_key \in ApiKeys
    /\ pc = [r \in Runs |-> "idle"]
    /\ topic = [r \in Runs |-> ""]
    /\ presentation_data = [r \in Runs |-> <<>>]
    /\ pptx_path = [r \in Runs |-> <<>>]
    /\ errors = [r \in Runs |-> {}]
    /\ exc = [r \in Runs |-> ""]
    /\ requests = 0
    /\ file = <<>>
    /\ timer = [r \in Runs |-> "none"]
    /\ remaining = [r \in Runs |-> 0]
    /\ IdleExtract /\ IdleRead /\ IdleDeck

HandlerStep(r) ==
    \/ GenerateNoKey(r) \/ ConfigureFails(r) \/ SendRequest(r)
    \/ GenerateFails(r) \/ GenerateParses(r)
    \/ NoContent(r) \/ Build(r) \/ Link(r)
    \/ SummaryRaises(r) \/ SummaryAndTimer(r)

CleanupStep(r) == CleanupWake(r) \/ CleanupUnlink(r)

Next ==
    \/ \E r \in Runs : Click(r)
    \/ \E r \in Runs : HandlerStep(r)
    \/ \E r \in Runs : CleanupStep(r)
    \/ Tick

Spec == Init /\ [][Next]_vars

-----------------------------------------------------------------------------
(* Properties of the create-presentation action                            *)

Ended(r) == pc[r] \in {"done", "raised"}

\* C2: when the text-generation call fails or its response cannot be parsed,
\* the action shows an error and still assembles a deck (from placeholder
\* content) instead of ending without one.
C2_FailedGenerationStillBuildsDeck ==
    \A r \in Runs :
        (Ended(r) /\ MsgGenError \in errors[r]) =>
            /\ errors[r] # {}
            /\ pptx_path[r] # <<>>

\* C3: whatever fields the parsed response lacks, the action runs to its end
\* without an uncaught exception.
C3_NoUncaughtException ==
    \A r \in Runs : pc[r] # "raised" /\ exc[r] = ""

\* C4: every artifact written by an action is eventually deleted by the
\* cleanup thread that action started.  An action that has ended starts no
\* thread any more, so the artifact it wrote, while still at the path, must
\* have that action's thread pending.
C4_WrittenArtifactHasCleanupPending ==
    \A r \in Runs :
        (Ended(r) /\ file # <<>> /\ file[1].owner = r) =>
            timer[r] \in {"sleeping", "unlinking"}

\* C5: with no API key configured, an action shows an explicit error (the
\* missing-key message whenever a topic was entered), sends no request to
\* the API, writes no artifact and starts no cleanup thread.
C5_NoKeyNoGeneration ==
    (api_key = "<None>" \/ api_key = "") =>
        /\ requests = 0
        /\ file = <<>>
        /\ \A r \in Runs :
              /\ timer[r] = "none"
              /\ pptx_path[r] = <<>>
              /\ pc[r] \notin {"awaiting", "built", "linked", "raised"}
              /\ Ended(r) =>
                    /\ errors[r] # {}
                    /\ topic[r] # "" =>
                          "API key is missing. Please configure it in the secrets.toml file."
                              \in errors[r]

\* C5 witness: an action with a topic has ended under an empty key, having
\* shown the missing-key message.
C5_Witness_EmptyKey ==
    /\ api_key = ""
    /\ \E r \in Runs :
          /\ pc[r] = "done"
          /\ topic[r] = "AI"
          /\ MsgKeyMissing \in errors[r]
          /\ MsgFailed \in errors[r]

\* C10: the cleanup thread of an action deletes only the artifact that action
\* wrote, and no artifact is deleted before it is five minutes old.
C10_TimerDeletesOnlyOwnArtifact ==
    [][ \A r \in Runs :
           (timer[r] = "unlinking" /\ timer'[r] # "unlinking" /\ file # <<>>) =>
               /\ file[1].owner = r
               /\ file[1].age >= 5 ]_vars

-----------------------------------------------------------------------------
(* Properties of create_powerpoint                                         *)

\* the records of the deck content, the deck built from it
Records  == Get(deck_data, "slides", <<>>)
OutDeck  == deck_out[1].slides

\* the body the mapping rules give a record: its content, or the placeholder
\* text, cut to 500 characters plus "..." when longer
ExpectedBody(rec) ==
    LET c == IF "content" \in DOMAIN rec THEN rec.content ELSE NoContentAvailable
    IN  IF Len(c) > 500 THEN [i \in 1..503 |-> IF i <= 500 THEN c[i] ELSE "."] ELSE c

ExpectedTitle(rec) == IF "title" \in DOMAIN rec THEN rec.title ELSE "Untitled Slide"

RecordsMapped ==
    \A i \in 1..Len(Records) :
        /\ OutDeck[i + 1].title = <<ExpectedTitle(Records[i])>>
        /\ OutDeck[i + 1].body  = <<ExpectedBody(Records[i])>>

\* C1 as stated: a deck content with N >= 0 records yields exactly 1 + N
\* slides, the title slide and then one slide per record in order, a missing
\* title being "Untitled Slide" and a missing content "No content available".
C1_OnePlusN ==
    deck_out # <<>> =>
        /\ deck_out[1].path # <<>>
        /\ Len(OutDeck) = 1 + Len(Records)
        /\ OutDeck[1].layout = 0
        /\ RecordsMapped

\* C1 as amended: with N >= 1 records the deck has 1 + N slides, mapped as
\* stated; with no record (slides absent or empty) but some key present the
\* deck has 2 slides, the title slide and the "Default Slide" placeholder;
\* an empty deck content yields no deck at all.
C1_OnePlusN_OrDefault ==
    deck_out # <<>> =>
        /\ (Len(Records) >= 1) =>
              /\ deck_out[1].path # <<>>
              /\ Len(OutDeck) = 1 + Len(Records)
              /\ OutDeck[1].layout = 0
              /\ OutDeck[1].title =
                    <<IF "title" \in DOMAIN deck_data THEN deck_data.title
                      ELSE "AI-Generated Presentation">>
              /\ RecordsMapped
        /\ (Len(Records) = 0 /\ DOMAIN deck_data # {}) =>
              /\ deck_out[1].path # <<>>
              /\ Len(OutDeck) = 2
              /\ OutDeck[1].layout = 0
              /\ OutDeck[2].layout = 1
              /\ OutDeck[2].title = <<"Default Slide">>
              /\ OutDeck[2].body = <<NoContentGenerated>>
        /\ (DOMAIN deck_data = {}) =>
              /\ deck_out[1].path = <<>>
              /\ OutDeck = <<>>

\* C1 witness: a deck built from two records, the first with neither title
\* nor content, has three slides, the second one with the placeholder texts.
C1_Witness_TwoRecords ==
    /\ deck_out # <<>>
    /\ Len(Records) = 2
    /\ DOMAIN Records[1] = {}
    /\ Len(OutDeck) = 3
    /\ OutDeck[2].title = <<"Untitled Slide">>
    /\ OutDeck[2].body = <<NoContentAvailable>>

\* C6: a body text longer than 500 characters is written as its first 500
\* characters followed by "..." (503 characters); one of 500 characters or
\* fewer is written unchanged.
C6_TrimAt500 ==
    deck_out # <<>> =>
        \A i \in 1..Len(Records) :
            ("content" \in DOMAIN Records[i]) =>
                LET c == Records[i].content
                    b == OutDeck[i + 1].body[1]
                IN  /\ Len(c) > 500 =>
                          /\ Len(b) = 503
                          /\ \A k \in 1..500 : b[k] = c[k]
                          /\ b[501] = "." /\ b[502] = "." /\ b[503] = "."
                    /\ Len(c) <= 500 => b = c

\* C6 witness: a body of 501 characters has been written as 503 characters.
C6_Witness_Trimmed ==
    /\ deck_out # <<>>
    /\ Len(Records) = 1
    /\ Len(Records[1].content) = 501
    /\ Len(OutDeck[2].body[1]) = 503

\* C8: every record's slide uses the layout mapped to its type tag, and the
\* default content layout (index 1) when the tag is absent or outside the
\* mapping; whatever the tags, the builder returns a deck.
C8_LayoutByTypeTag ==
    (deck_out # <<>> /\ DOMAIN deck_data # {}) =>
        /\ deck_out[1].path # <<>>
        /\ deck_out[1].error = <<>>
        /\ \A i \in 1..Len(Records) :
              LET rec == Records[i]
                  lay == OutDeck[i + 1].layout
              IN  IF "type" \notin DOMAIN rec THEN lay = 1
                  ELSE /\ rec.type = "title_slide"       => lay = 0
                       /\ rec.type = "content_slide"     => lay = 1
                       /\ rec.type = "section_slide"     => lay = 2
                       /\ rec.type = "two_content_slide" => lay = 3
                       /\ rec.type \notin {"title_slide", "content_slide",
                                           "section_slide", "two_content_slide"}
                             => lay = 1

\* C8 witness: a deck built from a record tagged "quote_slide", outside the
\* mapping, and a record tagged "section_slide".
C8_Witness_UnknownTag ==
    /\ deck_out # <<>>
    /\ Len(Records) = 2
    /\ "type" \in DOMAIN Records[1] /\ Records[1].type = "quote_slide"
    /\ "type" \in DOMAIN Records[2] /\ Records[2].type = "section_slide"
    /\ OutDeck[2].layout = 1
    /\ OutDeck[3].layout = 2

====
